---- MODULE Spec2Model ----
(***************************************************************************)
(* Yatat: the tweet archive, the decision ledger (class Decisions), the    *)
(* selection filters, the browsing session and the destruction run of     *)
(* src/yatat.py, as a state machine.                                       *)
(*                                                                         *)
(* A Python str is a sequence of one-character strings, so that str(),     *)
(* strip(), readlines() and writelines() are computed character by         *)
(* character.  A subject handed to the ledger is a tagged value: an int    *)
(* ([t |-> "int", v |-> 8]) or a str ([t |-> "str", v |-> <<"8">>]).       *)
(***************************************************************************)
EXTENDS Integers, Sequences, FiniteSets, TLC

VARIABLES
    store,       \* the working directory: file name -> [exists, data]
    decisions,   \* Decisions.decisions: decision -> set of subjects (str)
    op,          \* the last operation that ran, with its input (history)
    log,         \* the decide calls made on the ledger, or the list selected
                 \* and the answers given to filter, in order (history)
    online,      \* UserInterface.api is set
    pc,          \* the prompt the session waits at
    tweets,      \* the candidate list of action/filter/browse (archive positions)
    pos,         \* browse: the position in tweets of the tweet shown
    todo,        \* destroy_tweets: the subjects the for loop has yet to visit
    run,         \* the last destruction run (history)
    render,      \* pretty: the archive read and the chain of tweets followed
    launch       \* the command line and the working directory at start-up

session == <<online, pc, tweets, pos, todo, run, render, launch>>
vars ==
    <<store, decisions, op, log, online, pc, tweets, pos, todo, run, render,
      launch>>

-----------------------------------------------------------------------------
(* Bounds *)

\* at most MaxCalls decide calls are recorded in one behaviour of SpecDecide
MaxCalls == 3

\* the interpreter's limit on nested calls of pretty (sys.getrecursionlimit),
\* above the length of any chain of distinct tweets
RecursionLimit == 4

-----------------------------------------------------------------------------
(* Python strings *)

NL == "\n"
SP == " "

DigitChar == <<"0", "1", "2", "3", "4", "5", "6", "7", "8", "9">>

\* str(n) of a non-negative int: its decimal digits
RECURSIVE str_int(_)
str_int(n) ==
    IF n < 10 THEN <<DigitChar[n + 1]>>
    ELSE str_int(n \div 10) \o <<DigitChar[(n % 10) + 1]>>

\* str(subject): the digits of an int, a str unchanged
str(subject) == IF subject.t = "int" THEN str_int(subject.v) ELSE subject.v

isspace(ch) == ch \in {SP, NL}

RECURSIVE lstrip(_)
lstrip(s) ==
    IF s # <<>> /\ isspace(Head(s)) THEN lstrip(Tail(s)) ELSE s

RECURSIVE rstrip(_)
rstrip(s) ==
    IF s # <<>> /\ isspace(s[Len(s)]) THEN rstrip(SubSeq(s, 1, Len(s) - 1))
    ELSE s

\* str.strip(): leading and trailing whitespace removed
strip(s) == rstrip(lstrip(s))

\* file.readlines(): the lines of the data, each with its line end
RECURSIVE readlines(_)
readlines(data) ==
    IF data = <<>> THEN <<>>
    ELSE LET ends == {i \in 1..Len(data) : data[i] = NL}
             n == IF ends = {} THEN Len(data)
                  ELSE CHOOSE i \in ends : \A j \in ends : i <= j
         IN  <<SubSeq(data, 1, n)>> \o readlines(SubSeq(data, n + 1, Len(data)))

\* file.writelines(lines): the lines one after the other
RECURSIVE writelines(_)
writelines(lines) ==
    IF lines = <<>> THEN <<>> ELSE Head(lines) \o writelines(Tail(lines))

-----------------------------------------------------------------------------
(* class Decisions *)

keep == "yatat.keep"
destroy == "yatat.destroy"
destroyed == "yatat.destroyed"

\* UserInterface.__init__: possible_decisions = {keep, destroy, destroyed}
possible_decisions == {keep, destroy, destroyed}

\* explicit_decision=None
None == "None"

\* a file that does not exist
NoFile == [exists |-> FALSE, data |-> <<>>]

\* the Decisions object before __init__ has filled self.decisions
NoLedger == [decision \in {} |-> {}]

\* open(filename, 'a').close(): create the file when missing, keep its data
touch(file) == [exists |-> TRUE, data |-> IF file.exists THEN file.data ELSE <<>>]

\* {line.strip() for line in file.readlines()}
subjects_of(file) ==
    LET lines == readlines(file.data)
    IN  {strip(lines[i]) : i \in 1..Len(lines)}

\* the orders in which iterating a set can yield its members
Orderings(S) ==
    {o \in [1..Cardinality(S) -> S] : \A i, j \in DOMAIN o : o[i] = o[j] => i = j}

\* ['{0}\n'.format(subject) for subject in subjects], written with mode 'w'
written(order) ==
    [exists |-> TRUE,
     data |-> writelines([i \in DOMAIN order |-> order[i] \o <<NL>>])]

\* Decisions.__init__: touch and read each decision's file
init_files(files, possible) ==
    [f \in DOMAIN files |-> IF f \in possible THEN touch(files[f]) ELSE files[f]]

init_decisions(files, possible) ==
    [decision \in possible |-> subjects_of(touch(files[decision]))]

\* Decisions.commit: the working directories the loop over possible() can leave
RECURSIVE commit_rec(_, _, _)
commit_rec(rest, d, files) ==
    IF rest = {} THEN {files}
    ELSE LET decision == CHOOSE x \in rest : TRUE
         IN  UNION {commit_rec(rest \ {decision}, d,
                               [files EXCEPT ![decision] = written(order)])
                    : order \in Orderings(d[decision])}

commit(d, files) == commit_rec(DOMAIN d, d, files)

\* what a call that raises KeyError returns in place of the decisions
KeyError == [decision \in {"KeyError"} |-> {}]

\* decide with the set replaced instead of added to
decide_assign(d, subject, decision) ==
    IF decision \notin DOMAIN d THEN KeyError
    ELSE [d EXCEPT ![decision] = {str(subject)}]

\* decide that leaves the subject in the set of the decision only
decide_exclusive(d, subject, decision) ==
    IF decision \notin DOMAIN d THEN KeyError
    ELSE [c \in DOMAIN d |->
            IF c = decision THEN d[c] \cup {str(subject)}
            ELSE d[c] \ {str(subject)}]

\* Decisions.decide; self.decisions[decision] raises KeyError for a decision
\* that is not one of possible_decisions
decide(d, subject, decision) ==
    IF decision \notin DOMAIN d THEN KeyError
    ELSE [d EXCEPT ![decision] = @ \cup {str(subject)}]

\* revoke without the membership test: set.remove raises KeyError
revoke_remove(d, subject, decision) ==
    IF decision \notin DOMAIN d \/ str(subject) \notin d[decision] THEN KeyError
    ELSE [d EXCEPT ![decision] = @ \ {str(subject)}]

\* Decisions.revoke
revoke(d, subject, decision) ==
    IF decision \notin DOMAIN d THEN KeyError
    ELSE IF str(subject) \in d[decision]
         THEN [d EXCEPT ![decision] = @ \ {str(subject)}]
         ELSE d

\* Decisions.count
count(d, decision) == Cardinality(d[decision])

\* made without the comparison of the decision
made_any(d, subject, explicit_decision) ==
    \E decision \in DOMAIN d : str(subject) \in d[decision]

\* Decisions.made
made(d, subject, explicit_decision) ==
    \E decision \in DOMAIN d :
        IF explicit_decision # None
        THEN decision = explicit_decision /\ str(subject) \in d[decision]
        ELSE str(subject) \in d[decision]

-----------------------------------------------------------------------------
(* The ledger used on its own: a caller of class Decisions *)

\* the decisions the caller declares
LedgerDecisions == {keep, destroy}

\* the subjects the caller decides about: the ints 1 and 2, '1' and ' 1'
Subjects ==
    {[t |-> "int", v |-> 1], [t |-> "int", v |-> 2],
     [t |-> "str", v |-> <<"1">>], [t |-> "str", v |-> <<SP, "1">>]}

\* the session does not run while the ledger is used on its own
NoRun ==
    [phase |-> "none", destroy0 |-> {}, destroyed0 |-> {}, passed |-> {},
     failed |-> {}, aborted |-> FALSE]

\* no tweet is being printed
NoRender == [status |-> "none"]

\* the session is not being started
NoLaunch == [argv |-> 0]

Idle ==
    /\ render = NoRender
    /\ launch = NoLaunch
    /\ online = FALSE
    /\ pc = "none"
    /\ tweets = <<>>
    /\ pos = 0
    /\ todo = {}
    /\ run = NoRun

LedgerInit ==
    /\ store = [f \in possible_decisions |-> NoFile]
    /\ decisions = NoLedger
    /\ op = [name |-> "none"]
    /\ log = <<>>
    /\ Idle

\* Decisions(work_dir, possible_decisions)
Open ==
    /\ store' = init_files(store, LedgerDecisions)
    /\ decisions' = init_decisions(store, LedgerDecisions)
    /\ op' = [name |-> "open"]
    /\ UNCHANGED <<log, session>>

\* whether the subject is in the decision's set (FALSE for an unknown decision)
member(d, subject, decision) ==
    decision \in DOMAIN d /\ str(subject) \in d[decision]

\* the record of a ledger call: its input, whether the subject was a member
\* before the call, and whether the call raised
Called(name, subject, decision, result) ==
    [name |-> name, subject |-> subject, decision |-> decision,
     member |-> member(decisions, subject, decision),
     raised |-> result = KeyError]

\* decide that writes the files as well
Decide_committing(subject, decision) ==
    LET result == decide(decisions, subject, decision)
    IN  /\ decisions' = IF result = KeyError THEN decisions ELSE result
        /\ op' = Called("decide", subject, decision, result)
        /\ store' \in commit(decisions', store)
        /\ UNCHANGED session

\* decisions.decide(subject, decision)
Decide(subject, decision) ==
    LET result == decide(decisions, subject, decision)
    IN  /\ decisions' = IF result = KeyError THEN decisions ELSE result
        /\ op' = Called("decide", subject, decision, result)
        /\ UNCHANGED <<store, session>>

\* decisions.revoke(subject, decision)
Revoke(subject, decision) ==
    LET result == revoke(decisions, subject, decision)
    IN  /\ decisions' = IF result = KeyError THEN decisions ELSE result
        /\ op' = Called("revoke", subject, decision, result)
        /\ UNCHANGED <<store, log, session>>

\* decisions.commit()
Commit ==
    /\ store' \in commit(decisions, store)
    /\ op' = [name |-> "commit"]
    /\ UNCHANGED <<decisions, log, session>>

\* decisions.made(subject) and decisions.made(subject, explicit_decision)
Made(subject, explicit_decision) ==
    /\ op' = [name |-> "made", subject |-> subject,
              decision |-> explicit_decision,
              result |-> made(decisions, subject, explicit_decision)]
    /\ UNCHANGED <<store, decisions, log, session>>

\* decisions.count(decision)
Count(decision) ==
    /\ op' = [name |-> "count", decision |-> decision,
              result |-> count(decisions, decision)]
    /\ UNCHANGED <<store, decisions, log, session>>

LedgerDecide ==
    /\ decisions # NoLedger
    /\ \E subject \in Subjects, decision \in possible_decisions :
        Decide(subject, decision)
    /\ UNCHANGED log

LedgerRevoke ==
    /\ decisions # NoLedger
    /\ \E subject \in Subjects, decision \in possible_decisions :
        Revoke(subject, decision)

LedgerCommit ==
    /\ decisions # NoLedger
    /\ Commit

LedgerMade ==
    /\ decisions # NoLedger
    /\ \E subject \in Subjects, decision \in possible_decisions \cup {None} :
        Made(subject, decision)

LedgerCount ==
    /\ decisions # NoLedger
    /\ \E decision \in LedgerDecisions : Count(decision)

LedgerNext ==
    \/ Open
    \/ LedgerDecide
    \/ LedgerRevoke
    \/ LedgerCommit
    \/ LedgerMade
    \/ LedgerCount

SpecLedger == LedgerInit /\ [][LedgerNext]_vars

-----------------------------------------------------------------------------
(* decide calls alone, on a ledger opened in an empty working directory,   *)
(* each for one of the decisions the ledger was opened with                *)

DecideInit ==
    /\ store = init_files([f \in possible_decisions |-> NoFile], LedgerDecisions)
    /\ decisions = init_decisions([f \in possible_decisions |-> NoFile],
                                  LedgerDecisions)
    /\ op = [name |-> "open"]
    /\ log = <<>>
    /\ Idle

DecideLogged ==
    /\ Len(log) < MaxCalls
    /\ \E subject \in Subjects, decision \in LedgerDecisions :
        /\ Decide(subject, decision)
        /\ log' = Append(log, [subject |-> subject, decision |-> decision])

SpecDecide == DecideInit /\ [][DecideLogged]_vars

-----------------------------------------------------------------------------
(* class Tweet, class Archive *)

\* in_reply_to_status_id is None
NoReply == [t |-> "none"]

\* a str subject
Str(s) == [t |-> "str", v |-> s]

\* tweet.timestamp, '%Y-%m-%d %H:%M:%S'
timestamp1 ==
    <<"2", "0", "1", "8", "-", "0", "1", "-", "0", "5", SP, "1", "0", ":", "0", "0", ":", "0", "0">>

timestamp2 ==
    <<"2", "0", "1", "8", "-", "0", "2", "-", "0", "7", SP, "1", "1", ":", "0", "0", ":", "0", "0">>

timestamp3 ==
    <<"2", "0", "1", "9", "-", "0", "1", "-", "0", "9", SP, "1", "2", ":", "0", "0", ":", "0", "0">>

\* tweet.js of the working directory: a tweet, a reply to it, a retweet
archive ==
    <<[tweet_id |-> Str(<<"1">>), text |-> <<"h", "i">>,
       timestamp |-> timestamp1, in_reply_to_status_id |-> NoReply],
      [tweet_id |-> Str(<<"2">>), text |-> <<"@", "a", SP, "o", "k">>,
       timestamp |-> timestamp2, in_reply_to_status_id |-> Str(<<"1">>)],
      [tweet_id |-> Str(<<"3">>), text |-> <<"R", "T", SP, "@", "a">>,
       timestamp |-> timestamp3, in_reply_to_status_id |-> NoReply]>>

\* str.startswith
startswith(s, prefix) ==
    Len(s) >= Len(prefix) /\ SubSeq(s, 1, Len(prefix)) = prefix

\* the letters of the texts of the archive and of what is typed
LowerCase == <<"a", "c", "h", "i", "k", "n", "o", "q", "r", "t", "x", "y">>

UpperCase == <<"A", "C", "H", "I", "K", "N", "O", "Q", "R", "T", "X", "Y">>

\* str.upper
upper_char(c) ==
    IF \E i \in 1..Len(LowerCase) : LowerCase[i] = c
    THEN UpperCase[CHOOSE i \in 1..Len(LowerCase) : LowerCase[i] = c]
    ELSE c

upper(s) == [i \in 1..Len(s) |-> upper_char(s[i])]

\* str.lower
lower_char(c) ==
    IF \E i \in 1..Len(UpperCase) : UpperCase[i] = c
    THEN LowerCase[CHOOSE i \in 1..Len(UpperCase) : UpperCase[i] = c]
    ELSE c

lower(s) == [i \in 1..Len(s) |-> lower_char(s[i])]

\* sub in s
contains(s, sub) ==
    \E i \in 0..(Len(s) - Len(sub)) : SubSeq(s, i + 1, i + Len(sub)) = sub

\* Tweet.is_reply
is_reply(tweet) == tweet.in_reply_to_status_id.t # "none"

\* Tweet.is_retweet
is_retweet(tweet) == startswith(tweet.text, <<"R", "T", SP, "@">>)

\* Tweet.is_tweet
is_tweet(tweet) == ~is_retweet(tweet) /\ ~is_reply(tweet)

\* Archive.find over the list of tweets loaded: the position of the first
\* tweet whose tweet_id equals str(tweet_id), 0 for None
find(loaded, tweet_id) ==
    LET Found(i) == loaded[i].tweet_id = Str(str(tweet_id))
    IN  IF \E i \in 1..Len(loaded) : Found(i)
        THEN CHOOSE i \in 1..Len(loaded) :
                 Found(i) /\ \A j \in 1..(i - 1) : ~Found(j)
        ELSE 0

-----------------------------------------------------------------------------
(* Tweets of any archive: their classification, and pretty/parent printing *)
(* a tweet with the thread it replies to                                   *)

\* full_text of the tweets of tweet.js
Texts == {<<"h", "i">>, <<"R", "T", SP, "@", "a">>}

\* in_reply_to_status_id of the tweets of tweet.js: absent, the id of a tweet
\* of the archive, or the id of a tweet that is not in the archive
Targets ==
    {NoReply, Str(<<"1">>), Str(<<"2">>), Str(<<"3">>), Str(<<"9">>)}

\* tweet.js: three tweets with the ids 1, 2 and 3
Archives ==
    {[i \in 1..3 |->
        [tweet_id |-> Str(<<<<"1">>, <<"2">>, <<"3">>>>[i]),
         text |-> text[i], timestamp |-> timestamp1,
         in_reply_to_status_id |-> target[i]]]
     : text \in [1..3 -> Texts], target \in [1..3 -> Targets]}

ArchiveInit ==
    /\ store = [f \in possible_decisions |-> NoFile]
    /\ decisions = NoLedger
    /\ op = [name |-> "none"]
    /\ log = <<>>
    /\ online = FALSE
    /\ pc = "none"
    /\ tweets = <<>>
    /\ pos = 0
    /\ todo = {}
    /\ run = NoRun
    /\ launch = NoLaunch
    /\ \E loaded \in Archives :
           render = [tweets |-> loaded, chain |-> <<>>, status |-> "idle"]

\* is_reply(), is_retweet() and is_tweet() of a tweet of the archive
Classify ==
    \E i \in 1..Len(render.tweets) :
        /\ render.status = "idle"
        /\ op' = [name |-> "classify", tweet |-> i,
                  is_reply |-> is_reply(render.tweets[i]),
                  is_retweet |-> is_retweet(render.tweets[i]),
                  is_tweet |-> is_tweet(render.tweets[i])]
        /\ UNCHANGED <<store, decisions, log, session>>

\* UserInterface.pretty(tweet), called by decide for a tweet of the archive
Pretty ==
    \E i \in 1..Len(render.tweets) :
        /\ render.status = "idle"
        /\ render' = [render EXCEPT !.chain = <<i>>, !.status = "pretty"]
        /\ op' = [name |-> "pretty", tweet |-> i]
        /\ UNCHANGED <<store, decisions, log, online, pc, tweets, pos, todo,
                       run, launch>>

\* UserInterface.parent(tweet) for the last tweet of the chain: '' when it is
\* no reply, '-> is a reply' when find gives None; otherwise pretty(parent)
\* is called, which the interpreter refuses at its limit of nested calls
Parent ==
    LET tweet == render.tweets[render.chain[Len(render.chain)]]
        parent == find(render.tweets, tweet.in_reply_to_status_id)
    IN  /\ render.status = "pretty"
        /\ render' =
              IF ~is_reply(tweet) \/ parent = 0
              THEN [render EXCEPT !.status = "done"]
              ELSE IF Len(render.chain) >= RecursionLimit
              THEN [render EXCEPT !.status = "RecursionError"]
              ELSE [render EXCEPT !.chain = Append(@, parent)]
        /\ op' = [name |-> "parent", tweet |-> render.chain[Len(render.chain)]]
        /\ UNCHANGED <<store, decisions, log, online, pc, tweets, pos, todo,
                       run, launch>>

ArchiveNext == Classify \/ Pretty \/ Parent

SpecArchive == ArchiveInit /\ [][ArchiveNext]_vars

\* the interpreter goes on with a call that has begun
SpecArchiveFair == SpecArchive /\ WF_vars(Parent)

-----------------------------------------------------------------------------
(* class UserInterface *)

\* the decision files an earlier session can have left in the working
\* directory: none, or 2 to destroy and 3 destroyed
InitialStores ==
    {[f \in possible_decisions |-> NoFile],
     [f \in possible_decisions |->
        IF f = destroy THEN written(<<<<"2">>>>)
        ELSE IF f = destroyed THEN written(<<<<"3">>>>)
        ELSE written(<<>>)]}

\* UserInterface.__init__ up to the try: Archive and Decisions are built
UIInit ==
    /\ \E files \in InitialStores :
        /\ store = init_files(files, possible_decisions)
        /\ decisions = init_decisions(files, possible_decisions)
    /\ online \in BOOLEAN
    /\ pc = "login"
    /\ tweets = <<>>
    /\ pos = 0
    /\ todo = {}
    /\ run = NoRun
    /\ render = NoRender
    /\ launch = NoLaunch
    /\ op = [name |-> "open"]
    /\ log = <<>>

\* the finally clause without the commit on the paths that raise
at_exit_quit_only(how, d, files) ==
    IF how = "quit" THEN commit(d, files) ELSE {files}

\* UserInterface.__init__, finally: self.decisions.commit(), however the try
\* block was left
at_exit(how, d, files) == commit(d, files)

\* the session ends: the finally clause runs and the process exits
Exit(how) ==
    /\ store' \in at_exit(how, decisions, store)
    /\ pc' = "exited"
    /\ op' = [name |-> how, input |-> pc]
    /\ UNCHANGED <<decisions, log, online, tweets, pos, todo, run, render,
                   launch>>

\* UserInterface.__repr__: 'read' and 'unread' of the banner
nr_of_tweets_read(d) == count(d, keep) + count(d, destroy) + count(d, destroyed)

nr_of_tweets_not_read(d) == Len(archive) - nr_of_tweets_read(d)

\* the prompts above which the banner is printed: the menu, the stages of
\* filter, browse and decide
BannerPrompts ==
    {"menu", "filter1", "filter2", "filter3", "filter4", "browse_start",
     "browse_none", "decide"}

\* UserInterface.__init__, try: the api connects (online) or the username is
\* read (offline), and loop() shows the menu
Login ==
    /\ pc = "login"
    /\ pc' = "menu"
    /\ op' = [name |-> "login", input |-> ""]
    /\ UNCHANGED <<store, decisions, log, online, tweets, pos, todo, run,
                   render, launch>>

FilterPrompt == <<"filter1", "filter2", "filter3", "filter4">>

\* filter without the tests of the list: every stage prompts
after_stage_prompting(k, list) ==
    IF k < 4 THEN FilterPrompt[k + 1]
    ELSE IF list = <<>> THEN "browse_none"
    ELSE "browse_start"

\* the prompt that follows filter stage k (0: before the first stage): the
\* stages that remain are skipped when the list is empty, and browse follows
after_stage(k, list) ==
    IF list = <<>> THEN "browse_none"
    ELSE IF k < 4 THEN FilterPrompt[k + 1]
    ELSE "browse_start"

\* UserInterface.action, action == 'Q'
MenuQuit ==
    /\ pc = "menu"
    /\ Exit("quit")

\* UserInterface.action for a selection, up to the first prompt of filter:
\* tweets is the list selected from archive.tweets, in the archive's order
Select(action, input, list) ==
    /\ pc = "menu"
    /\ tweets' = list
    /\ pc' = after_stage(0, tweets')
    /\ pos' = 0
    /\ run' = NoRun
    /\ op' = [name |-> "menu", input |-> action, typed |-> input]
    /\ UNCHANGED <<store, decisions, online, todo, render, launch>>

\* list(self.archive.tweets)
all_tweets == [i \in 1..Len(archive) |-> i]

\* [tweet for tweet in self.archive.tweets if search in tweet.text.lower()]
searched(input) ==
    LET search == lower(strip(input))
        Matches(i) == contains(lower(archive[i].text), search)
    IN  SelectSeq(all_tweets, Matches)

\* [tweet for ... if tweet.timestamp.startswith(selector)], selector '-' when
\* nothing is typed
selected(input) ==
    LET selector == IF strip(input) = <<>> THEN <<"-">> ELSE strip(input)
        Matches(i) == startswith(archive[i].timestamp, selector)
    IN  SelectSeq(all_tweets, Matches)

\* what is typed at the prompt of 'Search'
SearchInputs == {<<>>, <<"A">>, <<"r", "t">>, <<"h", "i", SP>>}

\* what is typed at the prompt of 'Select'
TimeInputs ==
    {<<>>, <<"2", "0", "1", "8">>, <<SP, "2", "0", "1", "8", "-", "0", "2">>}

\* UserInterface.action, action == 'A'
MenuAll == Select("A", <<>>, all_tweets) /\ UNCHANGED log

\* UserInterface.action, action == 'S'
MenuSearch ==
    \E input \in SearchInputs :
        Select("S", input, searched(input)) /\ UNCHANGED log

\* UserInterface.action, action == 'T'
MenuTime ==
    \E input \in TimeInputs :
        Select("T", input, selected(input)) /\ UNCHANGED log

\* UserInterface.action, any other action: back to the menu
MenuOther ==
    /\ pc = "menu"
    /\ op' = [name |-> "menu", input |-> "other"]
    /\ run' = NoRun
    /\ UNCHANGED <<store, decisions, log, online, pc, tweets, pos, todo,
                   render, launch>>

\* the test of filter stage k on a tweet
removes(k, d, tweet) ==
    CASE k = 1 -> made(d, tweet.tweet_id, None)
      [] k = 2 -> is_retweet(tweet)
      [] k = 3 -> is_reply(tweet)
      [] k = 4 -> is_tweet(tweet)

\* the loop over tweets itself and not over a copy: the tweet that follows a
\* removed one is not tested
RECURSIVE filter_live(_, _, _, _)
filter_live(k, d, list, i) ==
    IF i > Len(list) THEN list
    ELSE IF removes(k, d, archive[list[i]])
    THEN filter_live(k, d, SubSeq(list, 1, i - 1) \o SubSeq(list, i + 1, Len(list)),
                     i + 1)
    ELSE filter_live(k, d, list, i + 1)

filter_stage_live(k, d, list) == filter_live(k, d, list, 1)

\* a stage that puts what it keeps in front of the list, last first
filter_stage_reversed(k, d, list) ==
    LET Keeps(i) == ~removes(k, d, archive[i])
        kept == SelectSeq(list, Keeps)
    IN  [i \in 1..Len(kept) |-> kept[Len(kept) + 1 - i]]

\* for tweet in list(tweets): if <test>: tweets.remove(tweet)
filter_stage(k, d, list) ==
    LET Keeps(i) == ~removes(k, d, archive[i])
    IN  SelectSeq(list, Keeps)

\* every stage applied only on 'Y'
applies_on_yes(k, answer) == upper(strip(answer)) = <<"Y">>

\* whether the answer to stage k's prompt applies the stage: stages 1 and 2
\* unless the answer is 'N', stages 3 and 4 only if it is 'Y'
applies(k, answer) ==
    IF k <= 2 THEN upper(strip(answer)) # <<"N">>
    ELSE upper(strip(answer)) = <<"Y">>

\* what is typed at the prompts of filter
FilterInputs == {<<>>, <<"y">>, <<"n", SP>>}

\* UserInterface.filter: stage k with what is typed at its prompt
Filter(k, answer) ==
    /\ pc = FilterPrompt[k]
    /\ tweets' = IF applies(k, answer)
                 THEN filter_stage(k, decisions, tweets) ELSE tweets
    /\ pc' = after_stage(k, tweets')
    /\ op' = [name |-> "filter", input |-> answer]
    /\ UNCHANGED <<store, decisions, online, pos, todo, run, render, launch>>

FilterAnswer ==
    \E k \in 1..4, answer \in FilterInputs : Filter(k, answer) /\ UNCHANGED log

-----------------------------------------------------------------------------
(* action up to the call of browse, for one selection on any ledger over   *)
(* the ids of the archive; log holds the list selected and then the        *)
(* answers given to filter                                                 *)

\* the ids of the archive, as the ledger holds them
archive_ids == {archive[i].tweet_id.v : i \in 1..Len(archive)}

FilterInit ==
    /\ decisions \in [possible_decisions -> SUBSET archive_ids]
    /\ store = [f \in possible_decisions |->
                  written(CHOOSE order \in Orderings(decisions[f]) : TRUE)]
    /\ online = FALSE
    /\ pc = "menu"
    /\ tweets = <<>>
    /\ pos = 0
    /\ todo = {}
    /\ run = NoRun
    /\ render = NoRender
    /\ launch = NoLaunch
    /\ op = [name |-> "login", input |-> ""]
    /\ log = <<>>

SelectLogged ==
    /\ \/ Select("A", <<>>, all_tweets)
       \/ \E input \in SearchInputs : Select("S", input, searched(input))
       \/ \E input \in TimeInputs : Select("T", input, selected(input))
    /\ log' = <<[candidates |-> tweets']>>

FilterLogged ==
    \E k \in 1..4, answer \in FilterInputs :
        /\ Filter(k, answer)
        /\ log' = Append(log, [stage |-> k, answer |-> answer])

SpecFilter == FilterInit /\ [][SelectLogged \/ FilterLogged]_vars

\* UserInterface.browse: 'hit ENTER to start', then the first tweet is shown
BrowseStart ==
    /\ pc = "browse_start"
    /\ pc' = "decide"
    /\ pos' = 1
    /\ op' = [name |-> "browse", input |-> ""]
    /\ UNCHANGED <<store, decisions, log, online, tweets, todo, run, render,
                   launch>>

\* UserInterface.browse: 'No tweets to read, hit ENTER to go back'
BrowseNone ==
    /\ pc = "browse_none"
    /\ pc' = "menu"
    /\ op' = [name |-> "browse", input |-> ""]
    /\ UNCHANGED <<store, decisions, log, online, tweets, pos, todo, run,
                   render, launch>>

\* what is typed at the prompt of decide
BrowseInputs ==
    {<<>>, <<"X">>, <<SP, "x">>, <<"c">>, <<"Q">>, <<"k">>}

\* decide where 'X' takes the tweet out of keep as well
ui_decide_revoking_keep(d, tweet, decision) ==
    IF decision = <<"C">> THEN d
    ELSE IF decision = <<"X">>
    THEN revoke(decide(d, tweet.tweet_id, destroy), tweet.tweet_id, keep)
    ELSE IF decision # <<"Q">> THEN decide(d, tweet.tweet_id, keep)
    ELSE d

\* decide where keeping takes the tweet out of destroy as well
ui_decide_revoking_destroy(d, tweet, decision) ==
    IF decision = <<"C">> THEN d
    ELSE IF decision = <<"X">> THEN decide(d, tweet.tweet_id, destroy)
    ELSE IF decision # <<"Q">>
    THEN revoke(decide(d, tweet.tweet_id, keep), tweet.tweet_id, destroy)
    ELSE d

\* decide where 'C' keeps the tweet like any other input
ui_decide_keeping_deferred(d, tweet, decision) ==
    IF decision = <<"X">> THEN decide(d, tweet.tweet_id, destroy)
    ELSE IF decision # <<"Q">> THEN decide(d, tweet.tweet_id, keep)
    ELSE d

\* UserInterface.decide: the ledger after the decision typed for a tweet
ui_decide(d, tweet, decision) ==
    IF decision = <<"C">> THEN d
    ELSE IF decision = <<"X">> THEN decide(d, tweet.tweet_id, destroy)
    ELSE IF decision # <<"Q">> THEN decide(d, tweet.tweet_id, keep)
    ELSE d

\* the loop of browse without the break on 'Q'
BrowseDecide_without_break ==
    \E raw \in BrowseInputs :
        LET decision == upper(strip(raw))
        IN  /\ pc = "decide"
            /\ decisions' = ui_decide(decisions, archive[tweets[pos]], decision)
            /\ IF pos = Len(tweets)
               THEN pc' = "menu" /\ pos' = 0
               ELSE pc' = "decide" /\ pos' = pos + 1
            /\ op' = [name |-> "decide", raw |-> raw]
            /\ UNCHANGED <<store, log, online, tweets, todo, run, render,
                           launch>>

\* UserInterface.decide for the tweet shown, and the loop of browse: 'Q'
\* breaks, the end of the list returns to the menu
BrowseDecide ==
    \E raw \in BrowseInputs :
        LET decision == upper(strip(raw))
        IN  /\ pc = "decide"
            /\ decisions' = ui_decide(decisions, archive[tweets[pos]], decision)
            /\ IF decision = <<"Q">> \/ pos = Len(tweets)
               THEN pc' = "menu" /\ pos' = 0
               ELSE pc' = "decide" /\ pos' = pos + 1
            /\ op' = [name |-> "decide", raw |-> raw]
            /\ UNCHANGED <<store, log, online, tweets, todo, run, render,
                           launch>>

\* UserInterface.decide with ctrl-c during the sleep that follows a decision:
\* the decision is made, browse prints 'Aborted.' and returns to the menu
BrowseDecideInterrupted ==
    \E raw \in BrowseInputs :
        LET decision == upper(strip(raw))
        IN  /\ pc = "decide"
            /\ decision \notin {<<"C">>, <<"Q">>}
            /\ decisions' = ui_decide(decisions, archive[tweets[pos]], decision)
            /\ pc' = "menu"
            /\ pos' = 0
            /\ op' = [name |-> "decide_interrupted", raw |-> raw]
            /\ UNCHANGED <<store, log, online, tweets, todo, run, render,
                           launch>>

\* destroy_tweets, 'Cleaning up.': for destroyed_tweet in destroyed:
\* revoke(destroyed_tweet, destroy)
RECURSIVE cleanup_rec(_, _)
cleanup_rec(d, rest) ==
    IF rest = {} THEN d
    ELSE LET destroyed_tweet == CHOOSE x \in rest : TRUE
         IN  cleanup_rec(revoke(d, Str(destroyed_tweet), destroy),
                         rest \ {destroyed_tweet})

\* destroy_tweets without the clean-up
cleanup_none(d) == d

\* the clean-up ending after the first subject of destroyed
cleanup_first(d) ==
    IF d[destroyed] = {} THEN d
    ELSE cleanup_rec(d, {CHOOSE x \in d[destroyed] : TRUE})

\* the clean-up revoking from destroy what is marked keep as well
cleanup_kept(d) == cleanup_rec(d, d[destroyed] \cup d[keep])

cleanup(d) == cleanup_rec(d, d[destroyed])

\* the loop of destroy_tweets without the test for keep
skips_destroyed_only(d, tweet_to_destroy) ==
    made(d, Str(tweet_to_destroy), destroyed)

\* the loop of destroy_tweets without the test for destroyed
skips_keep_only(d, tweet_to_destroy) ==
    made(d, Str(tweet_to_destroy), keep)

\* destroy_tweets: the two tests that 'continue'
skips(d, tweet_to_destroy) ==
    \/ made(d, Str(tweet_to_destroy), keep)
    \/ made(d, Str(tweet_to_destroy), destroyed)

\* what can happen once a subject is not skipped: the call succeeds, the call
\* raises an Exception, ctrl-c before the call (print, find, sleep) or ctrl-c
\* while the call runs
Outcomes == {"success", "failure", "interrupt", "interrupt_call"}

\* the try block without the decide
destroy_one_never(d, tweet_to_destroy, outcome) == d

\* the try block revoking destroy as soon as the tweet is destroyed
destroy_one_moving(d, tweet_to_destroy, outcome) ==
    IF outcome = "success"
    THEN revoke(decide(d, Str(tweet_to_destroy), destroyed),
                Str(tweet_to_destroy), destroy)
    ELSE d

\* destroy_tweets, the inner try: destroy_status, then decide(.., destroyed)
destroy_one(d, tweet_to_destroy, outcome) ==
    IF outcome = "success" THEN decide(d, Str(tweet_to_destroy), destroyed)
    ELSE d

\* the loop left on an Exception of the call as well
loop_ends_on_failure(outcome, rest) ==
    outcome \in {"interrupt", "interrupt_call", "failure"} \/ rest = {}

\* destroy_tweets: the for loop ends when the set is exhausted or on
\* KeyboardInterrupt
loop_ends(outcome, rest) ==
    outcome \in {"interrupt", "interrupt_call"} \/ rest = {}

\* destroy_tweets without the test of self.api
MenuDestroy_without_api ==
    /\ pc = "menu"
    /\ pc' = "destroy_start"
    /\ run' = [phase |-> "running",
               destroy0 |-> decisions[destroy],
               destroyed0 |-> decisions[destroyed],
               passed |-> {}, failed |-> {}, aborted |-> FALSE]
    /\ op' = [name |-> "menu", input |-> "X"]
    /\ UNCHANGED <<store, decisions, log, online, tweets, pos, todo, render,
                   launch>>

\* UserInterface.action, action == 'X': destroy_tweets up to its prompt
MenuDestroy ==
    /\ pc = "menu"
    /\ IF online
       THEN /\ pc' = "destroy_start"
            /\ run' = [phase |-> "running",
                       destroy0 |-> decisions[destroy],
                       destroyed0 |-> decisions[destroyed],
                       passed |-> {}, failed |-> {}, aborted |-> FALSE]
       ELSE /\ pc' = "destroy_offline"
            /\ run' = NoRun
    /\ op' = [name |-> "menu", input |-> "X"]
    /\ UNCHANGED <<store, decisions, log, online, tweets, pos, todo, render,
                   launch>>

\* destroy_tweets offline: 'Hit ENTER to go back...'
DestroyOffline ==
    /\ pc = "destroy_offline"
    /\ pc' = "menu"
    /\ op' = [name |-> "destroy", input |-> ""]
    /\ UNCHANGED <<store, decisions, log, online, tweets, pos, todo, run,
                   render, launch>>

\* destroy_tweets leaves its loop: the clean-up, and back to the menu
Finish(d, aborted) ==
    /\ decisions' = cleanup(d)
    /\ pc' = "menu"
    /\ todo' = {}
    /\ run' = [run EXCEPT !.phase = "finished", !.aborted = aborted]

\* destroy_tweets: 'hit ENTER to start...', the for loop begins
DestroyStart ==
    /\ pc = "destroy_start"
    /\ IF decisions[destroy] = {}
       THEN Finish(decisions, FALSE)
       ELSE /\ todo' = decisions[destroy]
            /\ pc' = "destroy_loop"
            /\ UNCHANGED <<decisions, run, render, launch>>
    /\ op' = [name |-> "destroy", input |-> ""]
    /\ UNCHANGED <<store, log, online, tweets, pos, render, launch>>

\* destroy_tweets: one pass of the for loop, for any subject not yet visited
DestroyStep ==
    \E tweet_to_destroy \in todo, outcome \in Outcomes :
        LET skip == skips(decisions, tweet_to_destroy)
            rest == todo \ {tweet_to_destroy}
            d == IF skip THEN decisions
                 ELSE destroy_one(decisions, tweet_to_destroy, outcome)
            result == IF skip THEN "skipped" ELSE outcome
            passed == IF result \in {"success", "failure", "interrupt_call"}
                      THEN run.passed \cup {tweet_to_destroy} ELSE run.passed
            failed == IF result = "failure"
                      THEN run.failed \cup {tweet_to_destroy} ELSE run.failed
        IN  /\ pc = "destroy_loop"
            /\ skip => outcome = "success"
            /\ op' = [name |-> "destroy_status", input |-> result,
                      subject |-> tweet_to_destroy]
            /\ IF loop_ends(result, rest)
               THEN /\ decisions' = cleanup(d)
                    /\ pc' = "menu"
                    /\ todo' = {}
                    /\ run' = [run EXCEPT
                                 !.phase = "finished",
                                 !.passed = passed,
                                 !.failed = failed,
                                 !.aborted = result \in {"interrupt",
                                                         "interrupt_call"}]
               ELSE /\ decisions' = d
                    /\ pc' = "destroy_loop"
                    /\ todo' = rest
                    /\ run' = [run EXCEPT !.passed = passed, !.failed = failed]
            /\ UNCHANGED <<store, log, online, tweets, pos, render, launch>>

\* the prompts at which input() is called
Prompts ==
    {"login", "menu", "filter1", "filter2", "filter3", "filter4",
     "browse_start", "browse_none", "decide", "destroy_offline",
     "destroy_start"}

\* ctrl-c at a prompt: browse and destroy_tweets catch KeyboardInterrupt and
\* return to the menu (destroy_tweets after its clean-up); everywhere else it
\* reaches __init__, which prints 'Aborted.' and runs the finally clause
Interrupt ==
    /\ pc \in Prompts
    /\ IF pc \in {"browse_start", "decide"}
       THEN /\ pc' = "menu"
            /\ pos' = 0
            /\ op' = [name |-> "interrupt", input |-> pc]
            /\ UNCHANGED <<store, decisions, log, online, tweets, todo, run,
                           render, launch>>
       ELSE IF pc = "destroy_start"
       THEN /\ Finish(decisions, TRUE)
            /\ op' = [name |-> "interrupt", input |-> pc]
            /\ UNCHANGED <<store, log, online, tweets, pos, render, launch>>
       ELSE Exit("interrupt")

\* any other exception at a prompt (EOFError of input(), an error of the api at
\* login): nothing catches it before the finally clause of __init__
Fault ==
    /\ pc \in Prompts
    /\ Exit("fault")

Next ==
    \/ Login
    \/ MenuQuit
    \/ MenuAll
    \/ MenuSearch
    \/ MenuTime
    \/ MenuOther
    \/ MenuDestroy
    \/ FilterAnswer
    \/ BrowseStart
    \/ BrowseNone
    \/ BrowseDecide
    \/ BrowseDecideInterrupted
    \/ DestroyOffline
    \/ DestroyStart
    \/ DestroyStep
    \/ Interrupt
    \/ Fault

Spec == UIInit /\ [][Next]_vars

-----------------------------------------------------------------------------
(* UserInterface(argv) up to the try: the command line is looked at, the   *)
(* Archive is built, then the Decisions                                    *)

\* what a decision file of the working directory can hold at start-up
StartFiles == {NoFile, written(<<>>), written(<<<<"1">>>>)}

\* len(argv); whether the working directory is a directory; whether it holds
\* a file tweet.js; whether json.load and Tweet() accept what the file holds
Launches ==
    {l \in [argv : 1..3, isdir : BOOLEAN, isfile : BOOLEAN, loads : BOOLEAN] :
        /\ l.isfile => l.isdir
        /\ l.loads => l.isfile}

StartInit ==
    /\ launch \in Launches
    /\ store \in [possible_decisions -> StartFiles]
    /\ ~launch.isdir => store = [f \in possible_decisions |-> NoFile]
    /\ decisions = NoLedger
    /\ op = [name |-> "none"]
    /\ log = <<>>
    /\ online = FALSE
    /\ pc = "start"
    /\ tweets = <<>>
    /\ pos = 0
    /\ todo = {}
    /\ run = NoRun
    /\ render = NoRender

\* how __init__ gets to its try, or does not: the usage line and return, Oops
\* of Archive for a missing directory or a missing tweet.js, the error of
\* json.load or of Tweet(), or both objects built
start_outcome(l) ==
    IF l.argv < 2 THEN "usage"
    ELSE IF ~l.isdir \/ ~l.isfile THEN "Oops"
    ELSE IF ~l.loads THEN "error"
    ELSE "login"

\* __init__ with the Decisions built before the Archive
Start_decisions_first ==
    LET outcome == start_outcome(launch)
    IN  /\ pc = "start"
        /\ pc' = outcome
        /\ IF outcome # "usage" /\ launch.isdir
           THEN /\ store' = init_files(store, possible_decisions)
                /\ decisions' = init_decisions(store, possible_decisions)
           ELSE UNCHANGED <<store, decisions>>
        /\ online' = (outcome = "login" /\ launch.argv = 3)
        /\ op' = [name |-> "start", input |-> outcome]
        /\ UNCHANGED <<log, tweets, pos, todo, run, render, launch>>

\* UserInterface.__init__ up to the try
Start ==
    LET outcome == start_outcome(launch)
    IN  /\ pc = "start"
        /\ pc' = outcome
        /\ IF outcome = "login"
           THEN /\ store' = init_files(store, possible_decisions)
                /\ decisions' = init_decisions(store, possible_decisions)
           ELSE UNCHANGED <<store, decisions>>
        /\ online' = (outcome = "login" /\ launch.argv = 3)
        /\ op' = [name |-> "start", input |-> outcome]
        /\ UNCHANGED <<log, tweets, pos, todo, run, render, launch>>

SpecStart == StartInit /\ [][Start]_vars

-----------------------------------------------------------------------------
(* The destruction run's and the session's properties *)

\* the subjects a step passes to api.destroy_status
PassedNow == run'.passed \ run.passed

\* the subjects of the destroy set at the start of the run that neither test
\* of the loop skips
Eligible == (run.destroy0 \ decisions[keep]) \ run.destroyed0

\* C1: a subject that is in the destroy set and in the keep set when the loop
\* visits it is never passed to api.destroy_status.
C1_KeptNeverPassed ==
    [][\A subject \in PassedNow : subject \notin decisions[keep]]_vars

\* a run has finished in which a subject of destroy and keep was visited and
\* another subject was passed to the api
C1_Witness ==
    /\ run.phase = "finished"
    /\ ~run.aborted
    /\ run.destroy0 \cap decisions[keep] # {}
    /\ run.passed # {}

\* C2: the api is never called for a subject that is in the destroyed set at
\* the moment of the call, over any sequence of browsing and destruction
\* runs.
C2_DestroyedNeverPassed ==
    [][\A subject \in PassedNow : subject \notin decisions[destroyed]]_vars

\* a subject destroyed by an earlier run had been marked for destruction
\* again when this run started, and this run has visited every subject
C2_Witness ==
    /\ run.phase = "finished"
    /\ ~run.aborted
    /\ run.destroy0 \cap run.destroyed0 # {}
    /\ op.name = "destroy_status"

\* C3: when a run has finished, the destroy set is the destroy set of the
\* run's start less the subjects now in destroyed, and no subject is in both.
C3_DestroyReconciled ==
    run.phase = "finished" =>
        /\ decisions[destroy] = run.destroy0 \ decisions[destroyed]
        /\ decisions[destroy] \cap decisions[destroyed] = {}

\* a finished run that destroyed one subject and left another in destroy
C3_Witness ==
    /\ run.phase = "finished"
    /\ run.passed \cap decisions[destroyed] # {}
    /\ decisions[destroy] # {}
    /\ decisions[destroy] # run.destroy0

\* C4: a subject marked for destruction and also for keep, and not destroyed
\* before the run, is in destroy and not in destroyed after the run.
C4_KeptStaysInDestroy ==
    run.phase = "finished" =>
        \A x \in (run.destroy0 \cap decisions[keep]) \ run.destroyed0 :
            x \in decisions[destroy] /\ x \notin decisions[destroyed]

\* a finished run with a kept subject in destroy, one call that succeeded and
\* one that failed
C4_Witness ==
    /\ run.phase = "finished"
    /\ (run.destroy0 \cap decisions[keep]) \ run.destroyed0 # {}
    /\ run.failed # {}
    /\ run.passed \cap decisions[destroyed] # {}

\* C5: when no subject of destroy is in keep or destroyed, every call
\* succeeds and there is no interrupt, the run leaves destroy empty and every
\* subject of destroy in destroyed, whose count grows by their number.
C5_AllDestroyed ==
    (/\ run.phase = "finished"
     /\ ~run.aborted
     /\ run.failed = {}
     /\ run.destroy0 \cap decisions[keep] = {}
     /\ run.destroy0 \cap run.destroyed0 = {})
    => /\ count(decisions, destroy) = 0
       /\ run.destroy0 \subseteq decisions[destroyed]
       /\ count(decisions, destroyed)
            = Cardinality(run.destroyed0) + Cardinality(run.destroy0)

\* such a run of two subjects, with a subject destroyed before it
C5_Witness ==
    /\ run.phase = "finished"
    /\ ~run.aborted
    /\ run.failed = {}
    /\ run.destroy0 \cap decisions[keep] = {}
    /\ run.destroy0 \cap run.destroyed0 = {}
    /\ Cardinality(run.destroy0) = 2
    /\ run.destroyed0 # {}
    /\ run.passed = run.destroy0

\* C6: a call that fails adds nothing to destroyed and does not end the loop
\* while subjects remain; the subject stays in destroy after the run and is
\* not in destroyed; and every subject of destroy that is in neither keep nor
\* destroyed is passed to the api in the same run, unless ctrl-c ends it.
C6_FailureDoesNotAbort ==
    [][/\ (op'.name = "destroy_status" /\ op'.input = "failure")
           => /\ decisions'[destroyed] = decisions[destroyed]
              /\ op'.subject \in decisions'[destroy]
              /\ todo \ {op'.subject} # {}
                   => pc' = "destroy_loop" /\ todo' = todo \ {op'.subject}
       /\ \A subject \in run'.failed :
              /\ subject \notin decisions'[destroyed]
              /\ subject \in decisions'[destroy]
       /\ (run'.phase = "finished" /\ ~run'.aborted)
           => Eligible' \subseteq run'.passed]_vars

\* a finished run in which one call failed and two others were made
C6_Witness ==
    /\ run.phase = "finished"
    /\ ~run.aborted
    /\ run.failed # {}
    /\ Cardinality(run.passed \ run.failed) = 2

\* the files hold, for every decision, exactly the subjects of the ledger
Committed ==
    \A decision \in possible_decisions :
        /\ store[decision].exists
        /\ store[decision].data
             \in {written(order).data : order \in Orderings(decisions[decision])}

\* C7: the ledger once opened, the session ends only with commit run: on
\* 'Q', on ctrl-c at any prompt and on any other exception.
C7_CommitOnEveryExit == pc = "exited" => Committed

\* the session ended on ctrl-c at a filter prompt with decisions made in it
C7_Witness ==
    /\ pc = "exited"
    /\ op.name = "interrupt"
    /\ op.input = "filter2"
    /\ decisions[keep] # {}
    /\ decisions[destroyed] = {<<"1">>, <<"3">>}

-----------------------------------------------------------------------------
(* The ledger's properties *)

\* the calls of the log made for a decision, and the subjects they named
CallsOn(decision) == {k \in 1..Len(log) : log[k].decision = decision}
DecidedOn(decision) == {str(log[k].subject) : k \in CallsOn(decision)}

\* C8: after any sequence of decide calls, count(c) is the number of distinct
\* subjects (by their string form) decided for c, whatever the number of
\* calls, and a decide of a subject that is already in c changes nothing.
C8_CountIsDistinctSubjects ==
    [][/\ \A decision \in LedgerDecisions :
            count(decisions', decision) = Cardinality(DecidedOn(decision)')
       /\ (op'.name = "decide" /\ op'.member) => decisions' = decisions]_vars

\* three calls for one decision, two of them naming the same subject as an
\* int and as a str: the count is 2
C8_Witness ==
    \E i, j \in 1..Len(log) :
        /\ i < j
        /\ log[i].decision = log[j].decision
        /\ log[i].subject.t # log[j].subject.t
        /\ str(log[i].subject) = str(log[j].subject)
        /\ Cardinality(CallsOn(log[i].decision)) = 3
        /\ count(decisions, log[i].decision) = 2

\* C9: for a decision of the ledger, revoke of a subject that is not a member
\* raises nothing and changes neither the ledger nor the files, and a decide
\* that follows a revoke of the same subject and decision leaves the subject
\* a member.
C9_RevokeThenDecide ==
    [][/\ (/\ op'.name = "revoke"
            /\ op'.decision \in DOMAIN decisions
            /\ ~op'.member)
           => (~op'.raised /\ decisions' = decisions /\ store' = store)
       /\ (/\ op.name = "revoke"
            /\ op'.name = "decide"
            /\ op'.decision \in DOMAIN decisions
            /\ op'.subject = op.subject
            /\ op'.decision = op.decision)
           => str(op'.subject) \in decisions'[op'.decision]]_vars

\* a revoke of a subject that was not a member of a non-empty set
C9_Witness ==
    /\ op.name = "revoke"
    /\ op.decision \in DOMAIN decisions
    /\ ~op.member
    /\ ~op.raised
    /\ decisions[op.decision] # {}

\* C10: commit() followed by opening a new ledger on the same working
\* directory with the same decisions gives, for every decision, the set of
\* subjects the ledger held at the commit.
C10_RoundTrip ==
    [][(op.name = "commit" /\ op'.name = "open") => decisions' = decisions]_vars

\* C11: made(s) without a decision is true iff s is a member of the set of at
\* least one decision of the ledger; made(s, c) is true iff s is a member of
\* c's set, whatever its membership in the other sets.
C11_MadeIsMembership ==
    [][op'.name = "made"
       => /\ op'.decision = None
              => (op'.result
                    <=> \E decision \in DOMAIN decisions :
                            str(op'.subject) \in decisions[decision])
          /\ op'.decision \in DOMAIN decisions
              => (op'.result
                    <=> str(op'.subject) \in decisions[op'.decision])]_vars

\* made(1, keep) is false on a ledger that holds '1' for destroy and ' 1' for
\* keep
C11_Witness ==
    /\ op.name = "made"
    /\ op.subject = [t |-> "int", v |-> 1]
    /\ op.decision = keep
    /\ ~op.result
    /\ decisions[destroy] = {<<"1">>}
    /\ decisions[keep] = {<<SP, "1">>}

\* the subjects a file holds, one a line, read as they were written
lines_of(file) ==
    LET lines == readlines(file.data)
    IN  {IF lines[i][Len(lines[i])] = NL
         THEN SubSeq(lines[i], 1, Len(lines[i]) - 1) ELSE lines[i]
         : i \in 1..Len(lines)}

\* C12: commit is the only operation that changes what the files hold: a
\* commit leaves in every file the set the ledger holds, and decide, revoke
\* and open leave the data of every file as it was, so that the files hold
\* the sets of the last commit and not the decisions made since.
C12_OnlyCommitWrites ==
    [][/\ op'.name = "commit"
           => /\ decisions' = decisions
              /\ \A decision \in DOMAIN decisions :
                     lines_of(store'[decision]) = decisions[decision]
       /\ op'.name # "commit"
           => \A decision \in possible_decisions :
                  store'[decision].data = store[decision].data]_vars

\* a subject decided after a commit: the ledger holds it, the file does not
C12_Witness ==
    /\ op.name = "decide"
    /\ ~op.member
    /\ ~op.raised
    /\ store[op.decision].data # <<>>
    /\ str(op.subject) \notin lines_of(store[op.decision])
    /\ str(op.subject) \in decisions[op.decision]

\* C13: opening a ledger leaves the data of every existing file as it was,
\* creates a missing file empty, and the set of each decision is what its
\* file holds.
C13_OpenKeepsFiles ==
    [][op'.name = "open"
       => \A decision \in LedgerDecisions :
              /\ store'[decision].exists
              /\ store'[decision].data
                   = (IF store[decision].exists
                      THEN store[decision].data ELSE <<>>)
              /\ decisions'[decision] = lines_of(store'[decision])]_vars

\* C19: at the prompt of decide, an input that is 'X' once stripped and
\* upper-cased adds the id of the tweet shown to the destroy set and changes
\* nothing else of the ledger (the tweet stays in keep if it was there), and
\* the session goes on to the next tweet of the list, or to the menu after the
\* last.
C19_BrowseDestroy ==
    [][(op'.name = "decide" /\ upper(strip(op'.raw)) = <<"X">>)
       => /\ decisions'
               = [decisions EXCEPT
                    ![destroy] = @ \cup {archive[tweets[pos]].tweet_id.v}]
          /\ store' = store
          /\ tweets' = tweets
          /\ IF pos < Len(tweets)
             THEN pc' = "decide" /\ pos' = pos + 1
             ELSE pc' = "menu"]_vars

\* ' x' typed for a tweet that is marked keep: the tweet is in both sets and
\* the next tweet is shown
C19_Witness ==
    /\ op.name = "decide"
    /\ op.raw = <<SP, "x">>
    /\ pc = "decide"
    /\ pos > 1
    /\ archive[tweets[pos - 1]].tweet_id.v \in decisions[keep]
    /\ archive[tweets[pos - 1]].tweet_id.v \in decisions[destroy]

\* C20: at the prompt of decide, an input that is not 'X', 'C' or 'Q' once
\* stripped and upper-cased (the empty input too) adds the id of the tweet
\* shown to the keep set and changes nothing else of the ledger (the tweet
\* stays in destroy if it was there), and the session goes on to the next
\* tweet of the list, or to the menu after the last.
C20_BrowseKeep ==
    [][(/\ op'.name = "decide"
        /\ upper(strip(op'.raw)) \notin {<<"X">>, <<"C">>, <<"Q">>})
       => /\ decisions'
               = [decisions EXCEPT
                    ![keep] = @ \cup {archive[tweets[pos]].tweet_id.v}]
          /\ store' = store
          /\ tweets' = tweets
          /\ IF pos < Len(tweets)
             THEN pc' = "decide" /\ pos' = pos + 1
             ELSE pc' = "menu"]_vars

\* ENTER typed for a tweet that is marked destroy: the tweet is in both sets
\* and the next tweet is shown
C20_Witness ==
    /\ op.name = "decide"
    /\ op.raw = <<>>
    /\ pc = "decide"
    /\ pos > 1
    /\ archive[tweets[pos - 1]].tweet_id.v \in decisions[keep]
    /\ archive[tweets[pos - 1]].tweet_id.v \in decisions[destroy]
    /\ archive[tweets[pos - 1]].tweet_id.v \in subjects_of(store[destroy])

\* the list selected, the answers given, and whether browse is next
candidates == log[1].candidates

answers == SubSeq(log, 2, Len(log))

filtered == Len(log) >= 1 /\ pc \in {"browse_start", "browse_none"}

\* the stages that were applied, going by what was typed
applied ==
    {k \in 1..4 :
        \E i \in 1..Len(answers) :
            /\ answers[i].stage = k
            /\ IF k <= 2 THEN upper(strip(answers[i].answer)) # <<"N">>
               ELSE upper(strip(answers[i].answer)) = <<"Y">>}

\* the stages of a sequence applied one after the other
RECURSIVE stages_in_order(_, _, _)
stages_in_order(order, d, list) ==
    IF order = <<>> THEN list
    ELSE stages_in_order(Tail(order), d, filter_stage(Head(order), d, list))

elements(list) == {list[i] : i \in 1..Len(list)}

\* C16: for the list selected and the ledger of the session, removing
\* retweets and then replies leaves the same tweets as removing replies and
\* then retweets, and the tweets left by filter are the tweets left by the
\* stages that were applied, taken in any order.
C16_StagesCommute ==
    Len(log) >= 1 =>
        /\ elements(stages_in_order(<<2, 3>>, decisions, candidates))
             = elements(stages_in_order(<<3, 2>>, decisions, candidates))
        /\ \A order \in Orderings(applied) :
               elements(stages_in_order(order, decisions, candidates))
                 = elements(tweets)

\* a list of a tweet, a reply and a retweet, of which the first and the last
\* are decided, after the stage of decided tweets and the stage of replies
C16_Witness ==
    /\ filtered
    /\ candidates = all_tweets
    /\ applied = {1, 3}
    /\ decisions[keep] = {<<"1">>}
    /\ decisions[destroy] = {<<"3">>}
    /\ tweets = <<>>

\* the answers that leave the stages at their defaults
defaults ==
    \A i \in 1..Len(answers) :
        IF answers[i].stage <= 2
        THEN upper(strip(answers[i].answer)) # <<"N">>
        ELSE upper(strip(answers[i].answer)) # <<"Y">>

\* C17: with answers that leave every stage at its default, the list filter
\* leaves is the list selected without the tweets that have a decision (keep,
\* destroy or destroyed) and without the retweets; replies and tweets stay.
C17_DefaultAnswers ==
    (filtered /\ defaults) =>
        LET Stays(i) ==
                /\ \A decision \in possible_decisions :
                       archive[i].tweet_id.v \notin decisions[decision]
                /\ ~startswith(archive[i].text, <<"R", "T", SP, "@">>)
        IN  tweets = SelectSeq(candidates, Stays)

\* ENTER at every prompt for the whole archive, the retweet undecided and the
\* tweet destroyed: the reply is what is left
C17_Witness ==
    /\ filtered
    /\ defaults
    /\ Len(answers) = 4
    /\ \A i \in 1..4 : answers[i].answer = <<>>
    /\ candidates = all_tweets
    /\ decisions[destroyed] = {<<"1">>}
    /\ decisions[keep] = {}
    /\ decisions[destroy] = {}
    /\ tweets = <<2>>

\* whether list is sub with some elements taken out
subsequence(sub, list) ==
    \E at \in [1..Len(sub) -> 1..Len(list)] :
        /\ \A i \in 1..Len(sub) : list[at[i]] = sub[i]
        /\ \A i, j \in 1..Len(sub) : i < j => at[i] < at[j]

\* C18: whatever the answers, the list filter works on is the list selected
\* with some tweets taken out: the tweets that remain are in the order of the
\* selection, which is the order of the archive, and none is there twice.
C18_FilteredIsSubsequence ==
    Len(log) >= 1 =>
        /\ subsequence(tweets, candidates)
        /\ subsequence(candidates, all_tweets)
        /\ \A i, j \in 1..Len(tweets) : i # j => tweets[i] # tweets[j]

\* the stage of replies alone on the whole archive: the tweet and the retweet
\* are left, in that order
C18_Witness ==
    /\ filtered
    /\ candidates = all_tweets
    /\ applied = {3}
    /\ tweets = <<1, 3>>

\* C14: every tweet is exactly one of reply, retweet and tweet, and a tweet
\* that has a reply target and a text starting with 'RT @' is a retweet and
\* not a reply.
C14_OneClassification ==
    op.name = "classify" =>
        /\ \/ op.is_reply /\ ~op.is_retweet /\ ~op.is_tweet
           \/ ~op.is_reply /\ op.is_retweet /\ ~op.is_tweet
           \/ ~op.is_reply /\ ~op.is_retweet /\ op.is_tweet
        /\ (/\ render.tweets[op.tweet].in_reply_to_status_id # NoReply
            /\ startswith(render.tweets[op.tweet].text, <<"R", "T", SP, "@">>))
           => (op.is_retweet /\ ~op.is_reply)

\* C15: pretty of a tweet comes to its end for every archive, one with a
\* cycle of replies or a tweet that replies to itself included.
C15_PrettyTerminates ==
    [](render.status = "pretty" => <>(render.status = "done"))

\* C21: at the prompt of decide, an input that is 'C' once stripped and
\* upper-cased leaves the ledger and the files as they were and the session
\* goes on to the next tweet of the list, or to the menu after the last; a
\* tweet that had no decision has none afterwards, so the stage of decided
\* tweets of a later selection leaves it in the list.
C21_DeferChangesNothing ==
    [][(op'.name = "decide" /\ upper(strip(op'.raw)) = <<"C">>)
       => /\ decisions' = decisions
          /\ store' = store
          /\ tweets' = tweets
          /\ IF pos < Len(tweets)
             THEN pc' = "decide" /\ pos' = pos + 1
             ELSE pc' = "menu"
          /\ (\A decision \in possible_decisions :
                 archive[tweets[pos]].tweet_id.v \notin decisions[decision])
             => filter_stage(1, decisions', <<tweets[pos]>>) = <<tweets[pos]>>]_vars

\* 'c' typed for a tweet without a decision, the next tweet is shown
C21_Witness ==
    /\ op.name = "decide"
    /\ op.raw = <<"c">>
    /\ pc = "decide"
    /\ pos > 1
    /\ \A decision \in possible_decisions :
           archive[tweets[pos - 1]].tweet_id.v \notin decisions[decision]

\* C22: at the prompt of decide, an input that is 'Q' once stripped and
\* upper-cased ends browse at once: the ledger and the files are as they
\* were, no further tweet is shown and the menu is next.  Without 'Q' the
\* tweets are shown one at a time in the order of the list, from the first
\* (browse starts at position 1, each answer moves to the next position) to
\* the last, after which the menu is next.
C22_QuitEndsBrowse ==
    [][/\ (op'.name = "decide" /\ upper(strip(op'.raw)) = <<"Q">>)
           => /\ decisions' = decisions
              /\ store' = store
              /\ pc' = "menu"
       /\ (op'.name = "decide" /\ upper(strip(op'.raw)) # <<"Q">>)
           => /\ tweets' = tweets
              /\ IF pos < Len(tweets)
                 THEN pc' = "decide" /\ pos' = pos + 1
                 ELSE pc' = "menu"
       /\ (pc # "decide" /\ pc' = "decide")
           => (pos' = 1 /\ tweets' = tweets)
       /\ pc' = "decide" => pos' \in 1..Len(tweets')]_vars

\* 'Q' typed while browsing the whole archive, no tweet of which has or gets
\* a decision
C22_Witness ==
    /\ op.name = "decide"
    /\ op.raw = <<"Q">>
    /\ pc = "menu"
    /\ tweets = all_tweets
    /\ \A decision \in possible_decisions : decisions[decision] = {}

\* C23: offline (self.api is None), action 'X' passes nothing to
\* destroy_status and leaves every set of the ledger and every file as it
\* was: destroy_tweets reports that the session is offline, waits for ENTER
\* and the menu is next.
C23_OfflineDestroysNothing ==
    [][~online
       => /\ PassedNow = {}
          /\ pc' \notin {"destroy_start", "destroy_loop"}
          /\ (op'.name = "menu" /\ op'.input = "X")
              => /\ decisions' = decisions
                 /\ store' = store
                 /\ pc' = "destroy_offline"
          /\ pc = "destroy_offline"
              => /\ decisions' = decisions
                 /\ op'.name = "destroy" => (store' = store /\ pc' = "menu")]_vars

\* back at the menu after 'X' offline, with a tweet marked destroy
C23_Witness ==
    /\ ~online
    /\ op.name = "destroy"
    /\ pc = "menu"
    /\ decisions[destroy] = {<<"1">>, <<"2">>}
    /\ decisions[destroyed] = {}

\* the destruction run ends on ctrl-c: at its prompt, or in a pass of the loop
AbortedNow == run.phase = "running" /\ run'.phase = "finished" /\ run'.aborted

\* the subject whose pass the ctrl-c cut short
InterruptedNow ==
    IF op'.name = "destroy_status" THEN {op'.subject} ELSE {}

\* the subjects destroy_status was called for and returned, up to the ctrl-c
DeletedBefore == (run'.passed \ run'.failed) \ InterruptedNow

\* the subjects of the destroy set the loop had not come to
NotVisited ==
    IF op'.name = "destroy_status" THEN todo ELSE decisions[destroy]

\* C27: ctrl-c during the destruction run ends the deletions and not the
\* clean-up: when destroy_tweets returns, every subject deleted before the
\* ctrl-c is in destroyed and no longer in destroy, the subjects the loop had
\* not come to (the one it was at included) are still in destroy, and the
\* menu is next.
C27_InterruptStillCleansUp ==
    [][AbortedNow
       => /\ pc' = "menu"
          /\ \A subject \in DeletedBefore :
                 /\ subject \in decisions'[destroyed]
                 /\ subject \notin decisions'[destroy]
          /\ \A subject \in NotVisited :
                 subject \in decisions'[destroy]]_vars

\* C27, amended: as above, but of the subjects the loop had not come to only
\* those that are not in destroyed are still in destroy; the clean-up takes
\* out of destroy every subject of destroyed, those of earlier runs too.
C27_InterruptCleansUpDestroyed ==
    [][AbortedNow
       => /\ pc' = "menu"
          /\ \A subject \in DeletedBefore :
                 /\ subject \in decisions'[destroyed]
                 /\ subject \notin decisions'[destroy]
          /\ \A subject \in NotVisited :
                 IF subject \in decisions[destroyed]
                 THEN subject \notin decisions'[destroy]
                 ELSE subject \in decisions'[destroy]
          /\ decisions'[destroyed] = decisions[destroyed]
          /\ decisions'[keep] = decisions[keep]]_vars

\* ctrl-c in the third pass, after two tweets were deleted: the two are in
\* destroyed only, the third is still in destroy
C27_Witness ==
    /\ run.phase = "finished"
    /\ run.aborted
    /\ pc = "menu"
    /\ op.name = "destroy_status"
    /\ Cardinality(run.passed \ {op.subject}) = 2
    /\ run.failed = {}
    /\ decisions[destroyed] = run.passed \ {op.subject}
    /\ decisions[destroy] = {op.subject}

\* C24: when the working directory does not exist or holds no tweet.js,
\* start-up ends with Oops and no ledger: no decision file is created or
\* changed, and none is read.
C24_OopsBeforeLedger ==
    [][(pc = "start" /\ launch.argv >= 2 /\ (~launch.isdir \/ ~launch.isfile))
       => /\ pc' = "Oops"
          /\ store' = store
          /\ decisions' = NoLedger]_vars

\* Oops in a working directory without tweet.js that holds a decision file
\* with a subject and lacks another
C24_Witness ==
    /\ pc = "Oops"
    /\ launch.isdir
    /\ ~launch.isfile
    /\ store[keep] = written(<<<<"1">>>>)
    /\ ~store[destroy].exists
    /\ decisions = NoLedger

\* a step of action that selects a list, or of filter that answers a prompt
SelectsNow == op'.name = "menu" /\ op'.input \in {"A", "S", "T"}

FiltersNow == op'.name = "filter"

\* C25: a stage of filter prompts, and is applied, only while the list holds
\* a tweet: a prompt of filter is never reached with an empty list, and once
\* the list is empty (as selected, or after a stage) the next prompt is that
\* of browse saying there is nothing to read, after which the menu follows
\* with no stage in between.
C25_EmptyListSkipsStages ==
    [][/\ (\E k \in 1..4 : pc' = FilterPrompt[k]) => tweets' # <<>>
       /\ FiltersNow
           => /\ \E k \in 1..4 : pc = FilterPrompt[k]
              /\ tweets # <<>>
       /\ ((SelectsNow \/ FiltersNow) /\ tweets' = <<>>)
           => pc' = "browse_none"
       /\ pc = "browse_none"
           => /\ tweets = <<>>
              /\ tweets' = <<>>
              /\ ~FiltersNow
              /\ op'.name = "browse" => pc' = "menu"]_vars

\* nothing to read after the first stage took the only tweet of a search
C25_Witness ==
    /\ pc = "browse_none"
    /\ op.name = "filter"
    /\ tweets = <<>>
    /\ decisions[keep] = {<<"1">>}
    /\ decisions[destroy] = {}
    /\ decisions[destroyed] = {}

\* C26: decide(s, c) and revoke(s, c) change the set of c only, and of that
\* set only whether it holds str(s): decide leaves it a member, revoke leaves
\* it no member, every other set and every file is as it was, so that a
\* subject can be a member of several sets at once.
C26_DecisionsIndependent ==
    [][(op'.name \in {"decide", "revoke"} /\ op'.decision \in DOMAIN decisions)
       => /\ ~op'.raised
          /\ DOMAIN decisions' = DOMAIN decisions
          /\ \A decision \in DOMAIN decisions \ {op'.decision} :
                 decisions'[decision] = decisions[decision]
          /\ decisions'[op'.decision] \ {str(op'.subject)}
               = decisions[op'.decision] \ {str(op'.subject)}
          /\ str(op'.subject) \in decisions'[op'.decision]
               <=> op'.name = "decide"
          /\ store' = store]_vars

\* decide(1, destroy) on a ledger that holds '1' for keep: '1' is in both
C26_Witness ==
    /\ op.name = "decide"
    /\ op.subject = [t |-> "int", v |-> 1]
    /\ op.decision = destroy
    /\ ~op.member
    /\ <<"1">> \in decisions[keep]
    /\ <<"1">> \in decisions[destroy]

\* C28: in a session no step takes a subject out of keep or out of
\* destroyed; a subject leaves destroy only in the step that ends a
\* destruction run, by its clean-up, and only if it is in destroyed.
C28_OnlyCleanupRemoves ==
    [][/\ decisions[keep] \subseteq decisions'[keep]
       /\ decisions[destroyed] \subseteq decisions'[destroyed]
       /\ (decisions[destroy] \ decisions'[destroy]) \subseteq decisions'[destroyed]
       /\ decisions[destroy] \ decisions'[destroy] # {}
           => (run.phase = "running" /\ run'.phase = "finished")]_vars

\* after a run that took a subject out of destroy, with a tweet kept and a
\* tweet destroyed by an earlier run
C28_Witness ==
    /\ run.phase = "finished"
    /\ run.destroy0 \ decisions[destroy] # {}
    /\ decisions[keep] # {}
    /\ run.destroyed0 # {}
    /\ run.destroyed0 \subseteq decisions[destroyed]
    /\ decisions[destroyed] # run.destroyed0

\* the session began with no subject in any decision file (nothing is
\* written before the session ends)
BeganEmpty == \A f \in possible_decisions : store[f].data = <<>>

\* C29: in a session that began with an empty ledger, wherever the banner is
\* printed its read count is the number of tweets of the archive that have a decision in at least
\* one set, and its unread count is between 0 and the size of the archive.
C29_BannerCounts ==
    (BeganEmpty /\ pc \in BannerPrompts) =>
        /\ nr_of_tweets_read(decisions)
             = Cardinality({i \in 1..Len(archive) :
                              \E decision \in possible_decisions :
                                  archive[i].tweet_id.v \in decisions[decision]})
        /\ nr_of_tweets_not_read(decisions) \in 0..Len(archive)

====
